---- MODULE Spec2Model ----
(***************************************************************************)
(* pwclip: deterministic per-site passwords (src/src/lib.rs).              *)
(*                                                                         *)
(* The model follows one caller through Key::new, then either              *)
(* PWM::password (password_raw statement by statement, then the drops of   *)
(* the Key and of the Password) or one of the From<Key> conversions, and   *)
(* then through a second call whose profile is a variation of the first.   *)
(*                                                                         *)
(* Strings are sequences of Unicode code points.  as_bytes() is UTF-8,     *)
(* len() is the UTF-8 byte length, graphemes(true) is extended grapheme    *)
(* segmentation restricted to the rule the drawn code points exercise      *)
(* (GB9: no break before a Grapheme_Extend code point).                    *)
(*                                                                         *)
(* scrypt and HMAC-SHA512 are external primitives.  They are replaced by   *)
(* small arithmetic mixing functions; the HMAC_DRBG construction built on  *)
(* the MAC (instantiate, update, reseed, generate) keeps its structure.    *)
(***************************************************************************)
EXTENDS Integers, Sequences, FiniteSets, TLC

(***************************************************************************)
(* Program constants                                                       *)
(***************************************************************************)

\* lib.rs:90  pub struct Key([u8; 32])
KeyLen == 32

\* lib.rs:71  drbg.generate::<U64>(None): one batch of 64 bytes
BatchLen == 64

\* lib.rs:22  CHARSET_ALPHANUMERIC, as code points: A-Z a-z 0-9
CHARSET_ALPHANUMERIC ==
    [i \in 1..62 |-> IF i <= 26 THEN 64 + i
                     ELSE IF i <= 52 THEN 96 + (i - 26)
                     ELSE 47 + (i - 52)]

(***************************************************************************)
(* Bounds of the model                                                     *)
(***************************************************************************)

\* profile lengths are drawn from 0..MaxLength and from BatchLen + 1
MaxLength == 2

(***************************************************************************)
(* Sequences                                                               *)
(***************************************************************************)

RECURSIVE Concat(_)
\* the concatenation of a sequence of sequences
Concat(ss) ==
    IF ss = <<>> THEN <<>> ELSE Head(ss) \o Concat(Tail(ss))

Take(s, n) ==
    SubSeq(s, 1, IF n < Len(s) THEN n ELSE Len(s))

IsPrefixOf(s, t) ==
    /\ Len(s) <= Len(t)
    /\ SubSeq(t, 1, Len(s)) = s

AllZero(bytes) ==
    \A i \in DOMAIN bytes : bytes[i] = 0

(***************************************************************************)
(* Strings: UTF-8 and grapheme clusters                                    *)
(***************************************************************************)

\* str::as_bytes for one code point below U+10000
Utf8(cp) ==
    IF cp < 128 THEN <<cp>>
    ELSE IF cp < 2048 THEN <<192 + (cp \div 64), 128 + (cp % 64)>>
    ELSE <<224 + (cp \div 4096), 128 + ((cp \div 64) % 64), 128 + (cp % 64)>>

\* str::as_bytes
AsBytes(s) ==
    Concat([i \in 1..Len(s) |-> Utf8(s[i])])

\* str::len / String::len: the length in bytes
ByteLen(s) ==
    Len(AsBytes(s))

\* Grapheme_Extend among the code points drawn: U+0300..U+036F
IsExtend(cp) ==
    cp \in 768..879

\* UnicodeSegmentation::graphemes(true).collect(): a cluster starts at the
\* start of the text and before every code point that is not Extend
Graphemes(s) ==
    LET idx    == [i \in 1..Len(s) |-> i]
        starts == SelectSeq(idx, LAMBDA i : i = 1 \/ ~IsExtend(s[i]))
    IN  [k \in 1..Len(starts) |->
            SubSeq(s, starts[k],
                   IF k < Len(starts) THEN starts[k + 1] - 1 ELSE Len(s))]

\* the number of grapheme clusters of a string
ClusterCount(s) ==
    Len(Graphemes(s))

(***************************************************************************)
(* External primitives, abstracted                                         *)
(***************************************************************************)

RECURSIVE MacFold(_, _)
\* absorbs the bytes of data into h, one at a time (the state after each
\* byte is bound by a quantifier, so that it is a value when it is passed on)
MacFold(h, data) ==
    IF data = <<>> THEN h
    ELSE CHOOSE r \in
            {MacFold(y, Tail(data)) :
                y \in {((h + Head(data) + 7) * (h + Head(data) + 7) + 31)
                         % 32749}} : TRUE

\* HMAC-SHA512 keyed with k over data, as a deterministic mixing function
Mac(k, data) ==
    MacFold((k * 17 + 5) % 32749, data \o <<255>>)

\* the 64 bytes of one MAC output
Block(v) ==
    [i \in 1..BatchLen |-> (Mac(v, <<i>>) \div 8) % 256]

\* scrypt(passphrase, b"pwclip", params, &mut buf): fills the 32 bytes
Scrypt(passphrase) ==
    LET h == Mac(112, passphrase)
    IN  [i \in 1..KeyLen |-> (Mac(h, <<i>>) \div 8) % 256]

\* one MAC output (the DRBG's V) as MAC input
VBytes(v) ==
    <<v % 256, v \div 256>>

(***************************************************************************)
(* HmacDRBG<Sha512>: HMAC_DRBG over the MAC above                          *)
(***************************************************************************)

\* HmacDRBG::update(seeds): K = MAC(K, V || 0x00 || seeds), V = MAC(K, V),
\* and with seeds given a second round with 0x01
HmacUpdate(st, seeds, given) ==
    CHOOSE r \in
        {IF given THEN [k |-> k2, v |-> Mac(k2, VBytes(v1))]
                  ELSE [k |-> k1, v |-> v1] :
            <<k1, v1, k2>> \in
                {<<a, b, Mac(a, VBytes(b) \o <<1>> \o seeds)>> :
                    <<a, b>> \in
                        {<<c, Mac(c, VBytes(st.v))>> :
                            c \in {Mac(st.k, VBytes(st.v) \o <<0>> \o seeds)}}}}
        : TRUE

\* HmacDRBG::new(entropy, nonce, pers): K = 00.., V = 01.., then update
HmacNew(entropy, nonce, pers) ==
    HmacUpdate([k |-> 0, v |-> 1], entropy \o nonce \o pers, TRUE)

\* a reseed that starts over from the entropy instead of folding it in
HmacReseedReset(st, entropy) ==
    HmacNew(entropy, <<>>, <<>>)

\* HmacDRBG::reseed(entropy, None): folds entropy into the current state
HmacReseed(st, entropy) ==
    HmacUpdate(st, entropy, TRUE)

\* HmacDRBG::generate::<U64>(None): V = MAC(K, V) is the 64 bytes of the
\* batch, then update(None)
HmacGenerate(st) ==
    LET v1 == Mac(st.k, VBytes(st.v))
    IN  [out |-> Block(v1),
         st  |-> HmacUpdate([k |-> st.k, v |-> v1], <<>>, FALSE)]

(***************************************************************************)
(* The iterator chain of password_raw                                      *)
(***************************************************************************)

\* lib.rs:73  .filter(|r| (*r as usize) < 256 - (256 % charset_len))
Accepts(r, charset_len) ==
    r < 256 - (256 % charset_len)

\* an index that is off by one
MapIndexOffByOne(r, charset_len) ==
    (r + 1) % charset_len

\* lib.rs:74  .map(|r| charset_graphemes[r as usize % charset_len])
MapIndex(r, charset_len) ==
    r % charset_len

\* lib.rs:71-74  the accepted bytes of the batch, in the order produced
Accepted(bytes, charset_len) ==
    SelectSeq(bytes, LAMBDA r : Accepts(r, charset_len))

\* lib.rs:75  self.length - self.prefix.len() on usize.  With overflow
\* checks the subtraction panics when it underflows; without them it wraps
\* to 2^64 - (prefix.len() - length), which exceeds the 64 items the chain
\* can yield for every profile drawn, so Take passes the whole chain: the
\* wrapped count is represented by BatchLen.
TakeCount(length, prefix) ==
    IF length >= ByteLen(prefix) THEN length - ByteLen(prefix) ELSE BatchLen

\* lib.rs:75  does the subtraction underflow
Underflows(length, prefix) ==
    length < ByteLen(prefix)

\* lib.rs:68-77  the clusters collected into chars (charset_len >= 1)
Collected(bytes, charset, n) ==
    LET charset_graphemes == Graphemes(charset)
        charset_len       == Len(charset_graphemes)
        acc               == Accepted(bytes, charset_len)
    IN  Take([i \in 1..Len(acc) |->
                 charset_graphemes[MapIndex(acc[i], charset_len) + 1]], n)

(***************************************************************************)
(* Secret buffers                                                          *)
(***************************************************************************)

\* lib.rs:115  self.0.clear() on [u8; 32]: clear_on_drop's Clear::clear,
\* which overwrites the array with zeroes
ArrayClear(bytes) ==
    [i \in DOMAIN bytes |-> 0]

\* lib.rs:31  self.0.clear() on String: the inherent String::clear, which
\* sets the length to 0 and leaves the bytes of the storage as they are
StringClear(storage) ==
    [len |-> 0, storage |-> storage]

(***************************************************************************)
(* Inputs                                                                  *)
(***************************************************************************)

Passphrases == {<<>>, <<115>>}

Urls == {<<>>, <<97>>}

Usernames == {<<>>, <<97>>}

\* Option<String>: <<>> is None, <<s>> is Some(s)
Extras == {<<>>, << <<>> >>}

\* "", "a", U+00E9 (one cluster, two bytes)
Prefixes == {<<>>, <<97>>, <<233>>}

\* 257 clusters of one code point each
BigCharset ==
    [i \in 1..257 |-> 1000 + i]

\* "", "a" U+0301 "b" "c" (three clusters, the first of two code points),
\* U+0301 "a" (two clusters, the first an Extend on its own), the default,
\* and a charset of more than 256 clusters
Charsets ==
    {<<>>, <<97, 769, 98, 99>>, <<769, 97>>, CHARSET_ALPHANUMERIC, BigCharset}

Lengths == (0..MaxLength) \cup {BatchLen + 1}

Profiles ==
    [url : Urls, username : Usernames, extra : Extras, prefix : Prefixes,
     charset : Charsets, length : Lengths]

NoDrbg == [k |-> 0, v |-> 0]

NoCall == [valid |-> FALSE]

(***************************************************************************)
(* State                                                                   *)
(***************************************************************************)

VARIABLES
    overflowChecks, \* the build: are arithmetic overflow checks compiled in
    passphrase,     \* the caller's passphrase
    pwm,            \* the PWM the caller calls password on
    pc,             \* where the caller is
    key,            \* the bytes of the Key (<<>>: no Key exists)
    drbg,           \* password_raw's drbg
    ops,            \* the calls made on drbg so far, in order
    out,            \* the batch returned by drbg.generate
    chars,          \* password_raw's chars
    result,         \* what the call handed to the caller
    freed,          \* the buffers released so far, with their bytes at release
    plain,          \* the buffers handed out with no Drop that scrubs them
    prev            \* the previous call: its inputs and what it handed out

vars == <<overflowChecks, passphrase, pwm, pc, key, drbg, ops, out, chars,
          result, freed, plain, prev>>

Pending == [kind |-> "pending", password |-> <<>>]

Init ==
    /\ overflowChecks \in BOOLEAN
    /\ passphrase \in Passphrases
    /\ pwm \in Profiles
    /\ pc = "idle"
    /\ key = <<>>
    /\ drbg = NoDrbg
    /\ ops = <<>>
    /\ out = <<>>
    /\ chars = <<>>
    /\ result = Pending
    /\ freed = {}
    /\ plain = {}
    /\ prev = NoCall

\* lib.rs:93-98  Key::new
KeyNew ==
    /\ pc = "idle"
    /\ key' = Scrypt(passphrase)
    /\ pc' = "keyed"
    /\ UNCHANGED <<overflowChecks, passphrase, pwm, drbg, ops, out, chars,
                   result, freed, plain, prev>>

\* lib.rs:113-117  Drop for Key: the buffer released, as the drop leaves it
DropKey(bytes) ==
    [owner |-> "Key", bytes |-> ArrayClear(bytes)]

\* lib.rs:101-105  From<Key> for [u8; 32]: key.0 is copied out, key dropped
IntoArray ==
    /\ pc = "keyed"
    /\ plain' = plain \cup {[owner |-> "[u8; 32]", bytes |-> key]}
    /\ freed' = freed \cup {DropKey(key)}
    /\ key' = <<>>
    /\ result' = [kind |-> "array", password |-> <<>>]
    /\ pc' = "converted"
    /\ UNCHANGED <<overflowChecks, passphrase, pwm, drbg, ops, out, chars, prev>>

\* lib.rs:107-111  From<Key> for Vec<u8>: key.0.to_vec(), key dropped
IntoVec ==
    /\ pc = "keyed"
    /\ plain' = plain \cup {[owner |-> "Vec<u8>", bytes |-> key]}
    /\ freed' = freed \cup {DropKey(key)}
    /\ key' = <<>>
    /\ result' = [kind |-> "vec", password |-> <<>>]
    /\ pc' = "converted"
    /\ UNCHANGED <<overflowChecks, passphrase, pwm, drbg, ops, out, chars, prev>>

\* a generator seeded with a fresh nonce on every call
NewRandomNonce ==
    /\ pc = "keyed"
    /\ \E nonce \in {<<0>>, <<1>>} :
          /\ drbg' = HmacNew(key, nonce, <<>>)
          /\ ops' = Append(ops, [op |-> "new", entropy |-> key, add |-> nonce])
    /\ pc' = "new"
    /\ UNCHANGED <<overflowChecks, passphrase, pwm, key, out, chars, result,
                   freed, plain, prev>>

\* lib.rs:84-85, 61  PWM::password enters password_raw: HmacDRBG::new
New ==
    /\ pc = "keyed"
    /\ drbg' = HmacNew(key, <<>>, <<>>)
    /\ ops' = Append(ops, [op |-> "new", entropy |-> key, add |-> <<>>])
    /\ pc' = "new"
    /\ UNCHANGED <<overflowChecks, passphrase, pwm, key, out, chars, result,
                   freed, plain, prev>>

\* lib.rs:62  drbg.reseed(self.url.as_bytes(), None)
MixUrl ==
    /\ pc = "new"
    /\ drbg' = HmacReseed(drbg, AsBytes(pwm.url))
    /\ ops' = Append(ops, [op |-> "reseed", entropy |-> AsBytes(pwm.url),
                           add |-> <<>>])
    /\ pc' = "url"
    /\ UNCHANGED <<overflowChecks, passphrase, pwm, key, out, chars, result,
                   freed, plain, prev>>

\* lib.rs:63  drbg.reseed(self.username.as_bytes(), None)
MixUsername ==
    /\ pc = "url"
    /\ drbg' = HmacReseed(drbg, AsBytes(pwm.username))
    /\ ops' = Append(ops, [op |-> "reseed", entropy |-> AsBytes(pwm.username),
                           add |-> <<>>])
    /\ pc' = "username"
    /\ UNCHANGED <<overflowChecks, passphrase, pwm, key, out, chars, result,
                   freed, plain, prev>>

\* lib.rs:64-66  if let Some(ref extra) = self.extra { drbg.reseed(..) }
MixExtra ==
    /\ pc = "username"
    /\ IF pwm.extra # <<>>
       THEN /\ drbg' = HmacReseed(drbg, AsBytes(pwm.extra[1]))
            /\ ops' = Append(ops, [op |-> "reseed",
                                   entropy |-> AsBytes(pwm.extra[1]),
                                   add |-> <<>>])
       ELSE UNCHANGED <<drbg, ops>>
    /\ pc' = "mixed"
    /\ UNCHANGED <<overflowChecks, passphrase, pwm, key, out, chars, result,
                   freed, plain, prev>>

\* lib.rs:71  drbg.generate::<U64>(None)
Generate ==
    /\ pc = "mixed"
    /\ out' = HmacGenerate(drbg).out
    /\ drbg' = HmacGenerate(drbg).st
    /\ ops' = Append(ops, [op |-> "generate", entropy |-> <<>>, add |-> <<>>])
    /\ pc' = "generated"
    /\ UNCHANGED <<overflowChecks, passphrase, pwm, key, chars, result, freed,
                   plain, prev>>

\* the unwinding of a panic inside password_raw: the batch and the drbg are
\* dropped as they are, then PWM::password's key is dropped
Unwind ==
    /\ freed' = freed \cup {[owner |-> "batch", bytes |-> out], DropKey(key)}
    /\ key' = <<>>
    /\ out' = <<>>
    /\ drbg' = NoDrbg
    /\ result' = [kind |-> "panic", password |-> <<>>]
    /\ pc' = "panicked"
    /\ UNCHANGED chars

\* lib.rs:68-77  let chars: String = { .. .take(..).collect() }
Collect ==
    /\ pc = "generated"
    /\ LET charset_len == ClusterCount(pwm.charset)
           n           == TakeCount(pwm.length, pwm.prefix)
       IN  IF Underflows(pwm.length, pwm.prefix) /\ overflowChecks
           THEN Unwind   \* attempt to subtract with overflow
           ELSE IF n > 0 /\ charset_len = 0
           THEN Unwind   \* remainder with a divisor of zero, first item
           ELSE /\ chars' = IF n = 0 THEN <<>>
                            ELSE Concat(Collected(out, pwm.charset, n))
                /\ freed' = freed \cup {[owner |-> "batch", bytes |-> out]}
                /\ out' = <<>>
                /\ pc' = "collected"
                /\ UNCHANGED <<key, drbg, result>>
    /\ UNCHANGED <<overflowChecks, passphrase, pwm, ops, plain, prev>>

\* lib.rs:79-82, 84-86  the password is built and returned; chars, the drbg
\* and then the key go out of scope
Return ==
    /\ pc = "collected"
    /\ result' = [kind |-> "password", password |-> pwm.prefix \o chars]
    /\ freed' = freed \cup {[owner |-> "chars", bytes |-> AsBytes(chars)],
                            DropKey(key)}
    /\ chars' = <<>>
    /\ key' = <<>>
    /\ drbg' = NoDrbg
    /\ pc' = "returned"
    /\ UNCHANGED <<overflowChecks, passphrase, pwm, ops, out, plain, prev>>

\* lib.rs:29-33  Drop for Password, then the String's storage is released
DropPassword ==
    /\ pc = "returned"
    /\ freed' = freed \cup
           {[owner |-> "Password",
             bytes |-> StringClear(AsBytes(result.password)).storage]}
    /\ pc' = "dropped"
    /\ UNCHANGED <<overflowChecks, passphrase, pwm, key, drbg, ops, out, chars,
                   result, plain, prev>>

Finished == pc \in {"dropped", "panicked"}

\* the length drawn after x
NextLength(x) ==
    IF x < MaxLength THEN x + 1 ELSE IF x = MaxLength THEN BatchLen + 1 ELSE 0

\* the profiles of the next call: the same, with or without a prefix,
\* the next length, or url and username exchanged
Variations(p) ==
    {p}
    \cup {[p EXCEPT !.prefix = x] :
            x \in IF p.prefix = <<>> THEN Prefixes ELSE {<<>>}}
    \cup {[p EXCEPT !.length = NextLength(p.length)]}
    \cup {[p EXCEPT !.url = p.username, !.username = p.url]}

\* the caller makes another call with the same passphrase
Again ==
    /\ Finished
    /\ prev' = [valid |-> TRUE, pwm |-> pwm, result |-> result, ops |-> ops]
    /\ pwm' \in Variations(pwm)
    /\ pc' = "idle"
    /\ key' = <<>>
    /\ drbg' = NoDrbg
    /\ ops' = <<>>
    /\ out' = <<>>
    /\ chars' = <<>>
    /\ result' = Pending
    /\ freed' = {}
    /\ plain' = {}
    /\ UNCHANGED <<overflowChecks, passphrase>>

Next ==
    \/ KeyNew
    \/ IntoArray
    \/ IntoVec
    \/ New
    \/ MixUrl
    \/ MixUsername
    \/ MixExtra
    \/ Generate
    \/ Collect
    \/ Return
    \/ DropPassword
    \/ Again

Spec == Init /\ [][Next]_vars

(***************************************************************************)
(* Claims                                                                  *)
(***************************************************************************)

\* the call has handed its outcome to the caller
Ended == pc \in {"returned", "dropped", "panicked"}

\* the profile satisfies the spec's preconditions of a successful generation
WellFormed(p) ==
    /\ ClusterCount(p.charset) >= 1
    /\ ClusterCount(p.prefix) <= p.length

\* C1: for every profile with a non-empty charset and a prefix of at most
\* `length` clusters, generation returns a Password of exactly `length`
\* grapheme clusters; it never stops early with a shorter one.
C1_LengthInvariant ==
    (Ended /\ WellFormed(pwm)) =>
        /\ result.kind = "password"
        /\ ClusterCount(result.password) = pwm.length

\* C2: for every profile whose prefix has more grapheme clusters than
\* `length`, generation returns the typed error PrefixTooLong and no
\* password; it never underflows, panics or returns some other string.
C2_PrefixTooLong ==
    (Ended /\ ClusterCount(pwm.prefix) > pwm.length) =>
        result.kind = "PrefixTooLong"

\* C3: for every profile whose charset has zero grapheme clusters,
\* generation returns the typed error InvalidCharset and no password; it
\* never evaluates 256 mod 0, panics or returns a prefix-only password.
C3_InvalidCharset ==
    (Ended /\ ClusterCount(pwm.charset) = 0) =>
        result.kind = "InvalidCharset"

\* C4: every secret buffer the pipeline owns (the 32 bytes of a Key, the
\* bytes of a Password string) has all its bytes zero when its storage is
\* released, on every exit path.
C4_ScrubOnRelease ==
    \A f \in freed :
        f.owner \in {"Key", "Password"} => AllZero(f.bytes)

\* C5: every copy of key bytes or of generated password characters that
\* outlives an operation is held in a buffer that is zeroed before release;
\* no operation hands out or leaves behind a plain copy.
C5_NoUnscrubbedCopies ==
    /\ plain = {}
    /\ \A f \in freed : AllZero(f.bytes)

GenPart(p, pw) ==
    SubSeq(pw, Len(p.prefix) + 1, Len(pw))

\* two profiles that differ at most in prefix and length
SameStream(p, q) ==
    /\ p.url = q.url
    /\ p.username = q.username
    /\ p.extra = q.extra
    /\ p.charset = q.charset

\* C7: for a fixed key, url, username, extra and charset the generated part
\* is the first length - len(prefix) clusters (len in grapheme clusters) of
\* one sequence that does not depend on prefix or length: the password
\* starts with the prefix, the password with prefix P and length L is P
\* followed by the first L - len(P) clusters of the prefix-less password,
\* and the password of a smaller length is an initial segment of the
\* password of a larger length.
C7_PrefixAndLengthSelect ==
    (/\ prev.valid
     /\ Ended
     /\ SameStream(prev.pwm, pwm)
     /\ WellFormed(prev.pwm)
     /\ WellFormed(pwm)) =>
        LET a  == prev.result.password
            b  == result.password
            ga == Graphemes(GenPart(prev.pwm, a))
            gb == Graphemes(GenPart(pwm, b))
        IN  /\ prev.result.kind = "password"
            /\ result.kind = "password"
            /\ IsPrefixOf(prev.pwm.prefix, a)
            /\ IsPrefixOf(pwm.prefix, b)
            /\ Len(ga) = prev.pwm.length - ClusterCount(prev.pwm.prefix)
            /\ Len(gb) = pwm.length - ClusterCount(pwm.prefix)
            /\ IsPrefixOf(ga, gb) \/ IsPrefixOf(gb, ga)
            /\ (prev.pwm.prefix = <<>> /\ prev.pwm.length = pwm.length) =>
                   b = pwm.prefix \o
                       Concat(Take(Graphemes(a),
                                   pwm.length - ClusterCount(pwm.prefix)))
            /\ (prev.pwm.prefix = pwm.prefix
                    /\ prev.pwm.length <= pwm.length) =>
                   IsPrefixOf(a, b)

C9_RejectionSampling ==
    (pc = "collected" /\ ClusterCount(pwm.charset) >= 1) =>
        LET n    == ClusterCount(pwm.charset)
            hits == (256 - (256 % n)) \div n
        IN  IF n <= 256
            THEN /\ \A b \in 0..255 :
                        Accepts(b, n) <=> b < 256 - (256 % n)
                 /\ \A i \in 0..(n - 1) :
                        Cardinality({b \in 0..255 :
                            Accepts(b, n) /\ MapIndex(b, n) = i}) = hits
                 /\ hits >= 1
            ELSE pwm.length > ByteLen(pwm.prefix) => chars # <<>>

\* the byte strings password_raw mixes in, in order
MixList(p) ==
    <<AsBytes(p.url), AsBytes(p.username)>>
    \o (IF p.extra # <<>> THEN <<AsBytes(p.extra[1])>> ELSE <<>>)

RECURSIVE FoldUpdate(_, _)
\* update with each byte string of a list in turn
FoldUpdate(st, list) ==
    IF list = <<>> THEN st
    ELSE CHOOSE r \in
            {FoldUpdate(nxt, Tail(list)) :
                nxt \in {HmacUpdate(st, Head(list), TRUE)}} : TRUE

\* the calls on the generator that C10 describes
ExpectedOps(k, p) ==
    <<[op |-> "new", entropy |-> k, add |-> <<>>]>>
    \o [i \in 1..Len(MixList(p)) |->
           [op |-> "reseed", entropy |-> MixList(p)[i], add |-> <<>>]]
    \o <<[op |-> "generate", entropy |-> <<>>, add |-> <<>>]>>

\* C10: the generator is seeded once from the key alone, then mixed once
\* with url, once with username, once with extra iff extra is present, and
\* bytes are drawn only after all mixes; each mix folds into the state, so
\* the state bytes are drawn from is a function of the ordered list, and
\* exchanging distinct url and username gives a different mix history.
C10_FixedMixOrder ==
    LET k      == Scrypt(passphrase)
        seeded == HmacUpdate([k |-> 0, v |-> 1], k, TRUE)
        done   == CASE pc = "new" -> 0
                    [] pc = "url" -> 1
                    [] pc = "username" -> 2
                    [] OTHER -> Len(MixList(pwm))
    IN  /\ IsPrefixOf(ops, ExpectedOps(k, pwm))
        /\ pc \in {"new", "url", "username", "mixed"} =>
              /\ Len(ops) = 1 + done
              /\ drbg = FoldUpdate(seeded, Take(MixList(pwm), done))
        /\ pc = "generated" =>
              /\ ops = ExpectedOps(k, pwm)
              /\ out = Block(Mac(FoldUpdate(seeded, MixList(pwm)).k,
                                 VBytes(FoldUpdate(seeded, MixList(pwm)).v)))
        /\ (out # <<>> \/ chars # <<>> \/ Ended) => ops = ExpectedOps(k, pwm)
        /\ (/\ prev.valid
            /\ pc = "generated"
            /\ pwm.url # pwm.username
            /\ prev.pwm = [pwm EXCEPT !.url = pwm.username,
                                      !.username = pwm.url]) =>
              ops # prev.ops

\* C10 witness: bytes have been drawn for a profile with an extra, after a
\* call on the profile with url and username exchanged
C10_Witness ==
    /\ pc = "generated"
    /\ WellFormed(pwm)
    /\ pwm.charset = CHARSET_ALPHANUMERIC
    /\ pwm.extra # <<>>
    /\ pwm.url # pwm.username
    /\ prev.valid
    /\ prev.pwm = [pwm EXCEPT !.url = pwm.username, !.username = pwm.url]
    /\ Len(ops) = 5

====
